---------------------------- MODULE Spec2Model ----------------------------
(***************************************************************************)
(* A model of the Gerber / Excellon coordinate relocation tools            *)
(* (update_gerber_pos.py, update_drill_pos.py).                            *)
(*                                                                         *)
(* Text is modelled as sequences of one-character strings where the code   *)
(* parses or formats it (coordinate fields), and as sequences of tokens    *)
(* where the code only pattern-matches it (a line).  A line is a record    *)
(*   [lead |-> leading whitespace, toks |-> tokens, term |-> terminator]   *)
(* so that line.strip() is the token sequence alone.                       *)
(***************************************************************************)
EXTENDS Integers, Sequences, FiniteSets, TLC

VARIABLES
    tool,                   \* "gerber" | "drill" | "fmt" | "copy" | "run": which program part runs
    pc,                     \* position in modify(): "ready" | "loop" | "done"
    zero_omission,          \* GerberCoordinateModifier.zero_omission
    coord_format,           \* GerberCoordinateModifier.coord_format  <<int_digits, dec_digits>>
    file_unit,              \* .file_unit of either modifier
    current_interpolation,  \* GerberCoordinateModifier.current_interpolation
    quadrant_mode,          \* GerberCoordinateModifier.quadrant_mode
    offset_x,               \* offset_x_coord (Gerber, integer) / offset_x_file (drill, rational)
    offset_y,               \* offset_y_coord / offset_y_file
    modified_count,         \* local of modify()
    error_count,            \* local of modify()
    arc_commands_found,     \* local of GerberCoordinateModifier.modify()
    line_num,               \* number of lines read from f_in so far
    last,                   \* the line read last and how it was handled (history)
    written,                \* what was written to f_out while handling that line
    mode_hist,              \* history: the stripped text class of every line read so far
    args,                   \* the arguments of modify(): <<offset_x_mm, offset_y_mm, input_unit>>
    fc_value,               \* format_coordinate applied alone: its argument
    fc_text,                \*   and its result
    content,                \* the bytes of a file the drill sniffer rejects: [head, tail]
    os_linesep,             \* what a text-mode write turns "\n" into on this platform
    file_encoding,          \* DrillCoordinateModifier.file_encoding
    is_drill_file,          \* DrillCoordinateModifier.is_drill_file
    copy_out,               \* the bytes of the output file of the copy
    cli,                    \* the tool whose main() runs over a list of files
    files,                  \* the files of that run, each with what the system lets happen
    idx,                    \* the file main() is at
    run,                    \* "idle" | "construct" | "modify" | "finished" | "aborted"
    reported,               \* the (modified_count, error_count) main() got back, per file
    header,                 \* the Gerber file as analyze_format meets it: [readable, lines]
    text                    \* the decoded content of a drill file, as a sequence of words

vars == <<tool, pc, zero_omission, coord_format, file_unit, current_interpolation,
          quadrant_mode, offset_x, offset_y, modified_count, error_count,
          arc_commands_found, line_num, last, written, mode_hist, args,
          fc_value, fc_text, content, os_linesep, file_encoding, is_drill_file, copy_out,
          cli, files, idx, run, reported, header, text>>

\* the state of one modifier at work on the lines of a file
lineVars == <<zero_omission, coord_format, file_unit, current_interpolation, quadrant_mode,
              offset_x, offset_y, modified_count, error_count, arc_commands_found,
              line_num, last, written, mode_hist, args>>

fmtVars == <<fc_value, fc_text>>

copyVars == <<content, os_linesep, file_encoding, is_drill_file, copy_out>>

runVars == <<cli, files, idx, run, reported>>

sniffVars == <<header, text>>

(***************************************************************************)
(* Bounds of the model.                                                    *)
(***************************************************************************)
MaxLines == 3

MaxFmtDigits == 3

MaxHead == 3

MaxTail == 1

MaxFiles == 2

\* the lines of a Gerber file analyze_format is run on, at most
MaxHeaderLines == 2

\* the words of a drill file analyze_format is run on, at most
MaxWords == 3

(***************************************************************************)
(* Characters, decimal text and Python's int() / str() / zfill().          *)
(***************************************************************************)
DigitChars == <<"0", "1", "2", "3", "4", "5", "6", "7", "8", "9">>

DigitChar(d) == DigitChars[d + 1]

IsDigit(c) == \E d \in 0..9 : DigitChars[d + 1] = c

DigitVal(c) == CHOOSE d \in 0..9 : DigitChars[d + 1] = c

RECURSIVE Pow10(_)
Pow10(k) == IF k = 0 THEN 1 ELSE 10 * Pow10(k - 1)

Abs(n) == IF n < 0 THEN -n ELSE n

\* str(n) for n >= 0
RECURSIVE StrNat(_)
StrNat(n) == IF n < 10 THEN <<DigitChar(n)>>
             ELSE StrNat(n \div 10) \o <<DigitChar(n % 10)>>

\* str(n)
StrInt(n) == IF n < 0 THEN <<"-">> \o StrNat(-n) ELSE StrNat(n)

\* s.zfill(w) for an unsigned digit string s
RECURSIVE ZFill(_, _)
ZFill(s, w) == IF Len(s) >= w THEN s ELSE ZFill(<<"0">> \o s, w)

RECURSIVE DigitsVal(_)
DigitsVal(s) == IF s = <<>> THEN 0
                ELSE 10 * DigitsVal(SubSeq(s, 1, Len(s) - 1)) + DigitVal(s[Len(s)])

AllDigits(s) == \A i \in 1..Len(s) : IsDigit(s[i])

\* the texts the patterns [-]?\d+ capture
IsSignedDigits(s) ==
    /\ Len(s) >= 1
    /\ IF s[1] = "-" THEN Len(s) >= 2 /\ AllDigits(Tail(s)) ELSE AllDigits(s)

\* int(s) for such a text
PyInt(s) == IF s[1] = "-" THEN -DigitsVal(Tail(s)) ELSE DigitsVal(s)

(***************************************************************************)
(* Exact rationals <<num, den>>, den > 0, for the float arithmetic of the  *)
(* offset conversion (the model computes exactly where the code computes   *)
(* in binary floating point).                                              *)
(***************************************************************************)
RECURSIVE GCD(_, _)
GCD(a, b) == IF b = 0 THEN a ELSE GCD(b, a % b)

RatNorm(n, d) == LET g == GCD(Abs(n), d) IN <<n \div g, d \div g>>

RatMul(a, b) == LET x == RatNorm(a[1], b[2])
                    y == RatNorm(b[1], a[2])
                IN  RatNorm(x[1] * y[1], x[2] * y[2])

RatDiv(a, b) == IF b[1] < 0 THEN RatMul(a, <<-b[2], -b[1]>>) ELSE RatMul(a, <<b[2], b[1]>>)

RatAdd(a, b) == RatNorm(a[1] * b[2] + b[1] * a[2], a[2] * b[2])

\* round(): to nearest, ties to even
RoundHalfEven(r) ==
    LET q   == r[1] \div r[2]
        rem == r[1] - q * r[2]
    IN  IF 2 * rem < r[2] THEN q
        ELSE IF 2 * rem > r[2] THEN q + 1
        ELSE IF q % 2 = 0 THEN q ELSE q + 1

MMPerInch == <<254, 10>>

(***************************************************************************)
(* Tokens and lines.                                                       *)
(***************************************************************************)
Lit(s) == [k |-> "lit", txt |-> <<s>>]

Coord(ax, txt) == [k |-> ax, txt |-> txt]

Star == Lit("*")

OpCodes == {Lit("D01"), Lit("D02"), Lit("D03")}

Line(lead, toks, term) == [lead |-> lead, toks |-> toks, term |-> term]

\* line.strip(): the text without its leading whitespace and its terminator
Strip(line) == Line("", line.toks, "")

NoLine == Line("", <<>>, "")

(***************************************************************************)
(* GerberCoordinateModifier: format sniffing (result only), offsets,       *)
(* coordinate encoding.                                                    *)
(***************************************************************************)
\* the lines analyze_format tells apart.  %FS<zo><mode>X<xi><xd>Y<yi><yd>*%:
\* zo is L (leading zeros omitted) or T (trailing), mode is A (absolute) or
\* I (incremental)
FSLine(zo, mode, xi, xd) ==
    [p |-> "FS", zo |-> zo, mode |-> mode, xi |-> xi, xd |-> xd, yi |-> xi, yd |-> xd]

\* %MO<unit>*%
MOLine(unit) == [p |-> "MO", unit |-> unit]

\* a line that starts with neither %FS nor %MO
OtherLine == [p |-> "other"]

GerberFile(readable, lines) == [readable |-> readable, lines |-> lines]

\* the fields __init__ sets before it calls analyze_format
GerberDefaults ==
    [zero_omission |-> "L",
     coord_format  |-> <<3, 6>>,
     file_unit     |-> "MM",
     current_interpolation |-> "G01",
     quadrant_mode |-> "single"]

\* re.search(r'FSL([AT])X(\d)(\d)Y(\d)(\d)', line) on a %FS line
FSMatches(line) == line.zo = "L" /\ line.mode \in {"A", "T"}

\* the body of the loop of analyze_format for one line, up to f.tell()
SniffLine(g, line) ==
    IF line.p = "FS"
    THEN IF FSMatches(line)
         THEN [g EXCEPT !.zero_omission = line.mode, !.coord_format = <<line.xi, line.xd>>]
         ELSE g
    ELSE IF line.p = "MO"
    THEN IF line.unit = "MM" THEN [g EXCEPT !.file_unit = "MM"]
         ELSE IF line.unit = "IN" THEN [g EXCEPT !.file_unit = "IN"]
         ELSE g
    ELSE g

\* __init__ followed by analyze_format.  open() raises on a file that cannot
\* be read; f.tell() inside "for line in f" raises OSError (telling position
\* disabled by next() call) at the end of the first pass of the loop; both
\* are caught by the except of analyze_format, which keeps what was assigned
\* until then.  So the loop body runs for the first line and no other.
analyze_format(file) ==
    IF ~file.readable \/ file.lines = <<>> THEN GerberDefaults
    ELSE SniffLine(GerberDefaults, file.lines[1])

\* convert_offset_to_file_units, the Gerber one: offset_mm is a rational, the
\* result the integer coordinate value
convert_offset_to_file_units(offset_mm, input_unit) ==
    LET offset_in_mm == IF input_unit = "IN" THEN RatMul(offset_mm, MMPerInch) ELSE offset_mm
        offset_in_file_units == IF file_unit = "IN" THEN RatDiv(offset_in_mm, MMPerInch)
                                ELSE offset_in_mm
        multiplier == Pow10(coord_format[2])
    IN  RoundHalfEven(RatMul(offset_in_file_units, <<multiplier, 1>>))

FormatNoSign(value) ==
    LET total_digits == coord_format[1] + coord_format[2]
    IN  IF zero_omission = "L" THEN ZFill(StrNat(Abs(value)), total_digits)
        ELSE StrNat(Abs(value))

FormatNoPad(value) == StrInt(value)

format_coordinate(value) ==
    LET total_digits == coord_format[1] + coord_format[2]
        is_negative  == value < 0
        abs_value    == Abs(value)
    IN  IF zero_omission = "L"
        THEN LET formatted == ZFill(StrNat(abs_value), total_digits)
             IN  IF is_negative THEN <<"-">> \o formatted ELSE formatted
        ELSE StrInt(value)

(***************************************************************************)
(* GerberCoordinateModifier: line patterns.                                *)
(***************************************************************************)
\* 'G02' in line or 'G03' in line or 'G75' in line
is_arc_command(toks) ==
    \E i \in 1..Len(toks) : toks[i] \in {Lit("G02"), Lit("G03"), Lit("G75")}

\* the tokens D[1-9][0-9]+ of the model
ApertureCodes == {Lit("D10"), Lit("D11")}

\* re.match(r'.*D[1-9][0-9]+\*', stripped_line)
HasApertureSelect(toks) ==
    \E i \in 1..(Len(toks) - 1) : toks[i] \in ApertureCodes /\ toks[i + 1] = Star

\* ^(.*?)(A[-]?\d+)...(D0[123]\*.*)$ with the fields kinds = <<A, ...>>, the
\* prefix being the first k tokens
MatchAt(toks, kinds, k) ==
    /\ k + Len(kinds) + 2 <= Len(toks)
    /\ \A j \in 1..Len(kinds) :
          toks[k + j].k = kinds[j] /\ IsSignedDigits(toks[k + j].txt)
    /\ toks[k + Len(kinds) + 1] \in OpCodes
    /\ toks[k + Len(kinds) + 2] = Star

Matches(toks, kinds) == \E k \in 0..Len(toks) : MatchAt(toks, kinds, k)

\* (.*?) is lazy: the shortest prefix
PrefixLen(toks, kinds) ==
    CHOOSE k \in 0..Len(toks) :
        MatchAt(toks, kinds, k) /\ \A m \in 0..(k - 1) : ~MatchAt(toks, kinds, m)

OffsetOf(ax, ox, oy) == IF ax = "X" THEN ox ELSE IF ax = "Y" THEN oy ELSE 0

\* the line re-assembled with every matched field re-encoded
Reassemble(toks, kinds, ox, oy) ==
    LET k == PrefixLen(toks, kinds)
    IN  [i \in 1..Len(toks) |->
            IF i > k /\ i <= k + Len(kinds)
            THEN Coord(toks[i].k,
                       format_coordinate(PyInt(toks[i].txt) + OffsetOf(toks[i].k, ox, oy)))
            ELSE toks[i]]

ArcPatterns == << <<"X", "Y", "I", "J">>, <<"X", "I", "J">>, <<"Y", "I", "J">> >>

ArcMatches(toks) == \E p \in 1..Len(ArcPatterns) : Matches(toks, ArcPatterns[p])

ArcPattern(toks) ==
    ArcPatterns[CHOOSE p \in 1..Len(ArcPatterns) :
                    Matches(toks, ArcPatterns[p])
                    /\ \A q \in 1..(p - 1) : ~Matches(toks, ArcPatterns[q])]

ArcOffsetsIJ(line, ox, oy) ==
    IF ArcMatches(line.toks)
    THEN LET kinds == ArcPattern(line.toks)
             k     == PrefixLen(line.toks, kinds)
         IN  Line("", [i \in 1..Len(line.toks) |->
                         IF i > k /\ i <= k + Len(kinds)
                         THEN Coord(line.toks[i].k,
                                    format_coordinate(PyInt(line.toks[i].txt)
                                        + (IF line.toks[i].k \in {"X", "I"}
                                           THEN ox ELSE oy)))
                         ELSE line.toks[i]], "\n")
    ELSE line

\* modify_arc_coordinates(line, offset_x, offset_y), line being the stripped line
modify_arc_coordinates(line, ox, oy) ==
    IF ArcMatches(line.toks)
    THEN Line("", Reassemble(line.toks, ArcPattern(line.toks), ox, oy), "\n")
    ELSE line

LinearPattern == <<"X", "Y">>

(***************************************************************************)
(* GerberCoordinateModifier.modify: the handling of one line.              *)
(***************************************************************************)
ModeLines == {<<Lit("G01"), Star>>, <<Lit("G02"), Star>>,
              <<Lit("G03"), Star>>, <<Lit("G75"), Star>>}

\* line.startswith('%'): tested on the line as read, not on the stripped line
StartsWithPercent(line) ==
    line.lead = "" /\ Len(line.toks) >= 1 /\ line.toks[1] = Lit("%")

Handled(route, out, ci, qm, dm, de, da) ==
    [route |-> route, out |-> out, ci |-> ci, qm |-> qm, dm |-> dm, de |-> de, da |-> da]

\* int(s) raises ValueError unless s is a signed digit string
IntRaises(s) == ~IsSignedDigits(s)

ModeAfterG75Resets(toks) ==
    IF toks[1] = Lit("G75") THEN "G01" ELSE toks[1].txt[1]

\* current_interpolation after a mode line G01* / G02* / G03* / G75*
ModeAfter(toks) ==
    IF toks[1] = Lit("G75") THEN current_interpolation ELSE toks[1].txt[1]

\* quadrant_mode after a mode line
QuadrantAfter(toks) == IF toks[1] = Lit("G75") THEN "multi" ELSE quadrant_mode

\* the except branch of the loop: count an error, write the line as read
GerberExcept(line) ==
    Handled("error", <<line>>, current_interpolation, quadrant_mode, 0, 1, 0)

\* the fields a pattern captured in the line
Captured(toks, kinds) ==
    {toks[PrefixLen(toks, kinds) + j].txt : j \in 1..Len(kinds)}

\* the body of the loop of modify() for one line.  int() is applied only to
\* the texts the patterns captured ([-]?\d+), on which it does not raise.
GerberStep(line) ==
    LET original_line == line
        stripped_line == Strip(line)
        toks          == line.toks
    IN  IF toks \in ModeLines
        THEN Handled("mode", <<original_line>>, ModeAfter(toks), QuadrantAfter(toks), 0, 0, 0)
        ELSE IF StartsWithPercent(line) \/ HasApertureSelect(toks)
        THEN Handled("skip", <<original_line>>, current_interpolation, quadrant_mode, 0, 0, 0)
        ELSE IF is_arc_command(toks) \/ current_interpolation \in {"G02", "G03"}
        THEN IF ArcMatches(toks) /\ \E t \in Captured(toks, ArcPattern(toks)) : IntRaises(t)
             THEN GerberExcept(line)
             ELSE \* modified_line != original_line decides the count
                  LET modified_line ==
                          modify_arc_coordinates(stripped_line, offset_x, offset_y)
                  IN  Handled("arc", <<modified_line>>, current_interpolation, quadrant_mode,
                              IF modified_line # original_line THEN 1 ELSE 0, 0, 1)
        ELSE IF Matches(toks, LinearPattern)
        THEN IF \E t \in Captured(toks, LinearPattern) : IntRaises(t)
             THEN GerberExcept(line)
             ELSE Handled("linear",
                          <<Line("", Reassemble(toks, LinearPattern, offset_x, offset_y), "\n")>>,
                          current_interpolation, quadrant_mode, 1, 0, 0)
        ELSE Handled("pass", <<original_line>>, current_interpolation, quadrant_mode, 0, 0, 0)

(***************************************************************************)
(* DrillCoordinateModifier: offsets, parsing and rendering of coordinates. *)
(***************************************************************************)
\* convert_offset_to_file_units, the drill one: a rational in file units
drill_convert_offset_to_file_units(offset_mm, input_unit) ==
    LET offset_in_mm == IF input_unit = "IN" THEN RatMul(offset_mm, MMPerInch) ELSE offset_mm
    IN  IF file_unit = "IN" THEN RatDiv(offset_in_mm, MMPerInch) ELSE offset_in_mm

\* the texts float() accepts among those [-\d.]+ captures
FloatOK(s) ==
    LET body == IF Len(s) >= 1 /\ s[1] = "-" THEN Tail(s) ELSE s
    IN  /\ \A i \in 1..Len(body) : IsDigit(body[i]) \/ body[i] = "."
        /\ Cardinality({i \in 1..Len(body) : body[i] = "."}) <= 1
        /\ \E i \in 1..Len(body) : IsDigit(body[i])

\* float(s) for such a text, as a rational
FloatVal(s) ==
    LET neg  == s[1] = "-"
        body == IF neg THEN Tail(s) ELSE s
        dots == {i \in 1..Len(body) : body[i] = "."}
        dot  == IF dots = {} THEN Len(body) + 1 ELSE CHOOSE i \in dots : TRUE
        ip   == SubSeq(body, 1, dot - 1)
        fp   == SubSeq(body, dot + 1, Len(body))
        mag  == DigitsVal(ip \o fp)
    IN  RatNorm(IF neg THEN -mag ELSE mag, Pow10(Len(fp)))

\* parse_coordinate(coord_str) is float(coord_str[1:]); a token holds the
\* text after the axis letter
parse_coordinate(tok) == FloatVal(tok.txt)

RECURSIVE RStrip(_, _)
RStrip(s, c) == IF s # <<>> /\ s[Len(s)] = c THEN RStrip(SubSeq(s, 1, Len(s) - 1), c) ELSE s

FracDigits == 6

\* f"{value:.6f}"
Fixed6(value) ==
    LET scaled == RoundHalfEven(RatMul(<<Abs(value[1]), value[2]>>, <<Pow10(FracDigits), 1>>))
        body   == StrNat(scaled \div Pow10(FracDigits)) \o <<".">>
                  \o ZFill(StrNat(scaled % Pow10(FracDigits)), FracDigits)
    IN  IF value[1] < 0 THEN <<"-">> \o body ELSE body

DrillFormatKeepZeros(value) == Fixed6(value)

\* format_coordinate(value), the drill one
drill_format_coordinate(value) == RStrip(RStrip(Fixed6(value), "0"), ".")

(***************************************************************************)
(* DrillCoordinateModifier.modify: the handling of one line.               *)
(***************************************************************************)
EndCommands == {<<Lit("M30")>>, <<Lit("M00")>>, <<Lit("M02")>>}

\* the tokens T\d+... of the model
ToolCodes == {Lit("T01"), Lit("T01C0.5")}

\* re.match(r'^T\d+', stripped_line)
IsToolSelect(toks) == Len(toks) >= 1 /\ toks[1] \in ToolCodes

\* positions of the fields A[-\d.]+
FieldsAt(toks, ax) == {i \in 1..Len(toks) : toks[i].k = ax}

Least(S) == CHOOSE i \in S : \A j \in S : i <= j

\* ^(.*?)(X[-\d.]+)(.*?)(Y[-\d.]+)(.*)$ : the first X field with a Y field after
\* it, and the first Y field after that X field
CoordMatch(toks) ==
    \E i \in FieldsAt(toks, "X") : \E j \in FieldsAt(toks, "Y") : i < j

CoordX(toks) == Least({i \in FieldsAt(toks, "X") : \E j \in FieldsAt(toks, "Y") : i < j})

CoordY(toks) == Least({j \in FieldsAt(toks, "Y") : CoordX(toks) < j})

Shifted(tok, off) ==
    Coord(tok.k, drill_format_coordinate(RatAdd(parse_coordinate(tok), off)))

DrillExceptCountsModified(line) ==
    Handled("error", <<line>>, current_interpolation, quadrant_mode, 1, 1, 0)

\* the except branch of the loop: count an error, write the line as read
DrillExcept(line) ==
    Handled("error", <<line>>, current_interpolation, quadrant_mode, 0, 1, 0)

\* the body of the loop of modify() for one line
DrillStep(line) ==
    LET original_line == line
        toks          == line.toks
        Same(route)   == Handled(route, <<original_line>>, current_interpolation,
                                 quadrant_mode, 0, 0, 0)
        Failed        == DrillExcept(original_line)
        New(route, t) == Handled(route, <<Line("", t, "\n")>>, current_interpolation,
                                 quadrant_mode, 1, 0, 0)
    IN  IF toks = <<>> \/ toks \in EndCommands
        THEN Same("skip")
        ELSE IF IsToolSelect(toks)
        THEN Same("tool")
        ELSE IF CoordMatch(toks)
        THEN LET i == CoordX(toks)
                 j == CoordY(toks)
             IN  IF ~FloatOK(toks[i].txt) \/ ~FloatOK(toks[j].txt)
                 THEN Failed
                 ELSE New("xy", [n \in 1..Len(toks) |->
                                    IF n = i THEN Shifted(toks[n], offset_x)
                                    ELSE IF n = j THEN Shifted(toks[n], offset_y)
                                    ELSE toks[n]])
        ELSE IF FieldsAt(toks, "X") # {}
        THEN LET i == Least(FieldsAt(toks, "X"))
             IN  IF ~FloatOK(toks[i].txt)
                 THEN Failed
                 ELSE New("x", [n \in 1..Len(toks) |->
                                   IF n = i THEN Shifted(toks[n], offset_x) ELSE toks[n]])
        ELSE IF FieldsAt(toks, "Y") # {}
        THEN LET j == Least(FieldsAt(toks, "Y"))
             IN  IF ~FloatOK(toks[j].txt)
                 THEN Failed
                 ELSE New("y", [n \in 1..Len(toks) |->
                                   IF n = j THEN Shifted(toks[n], offset_y) ELSE toks[n]])
        ELSE Same("pass")

(***************************************************************************)
(* The inputs of the model: files are read one line at a time, each line   *)
(* drawn from these sets.                                                  *)
(***************************************************************************)
\* (leading whitespace, terminator) of a line; only the last line of a file
\* can lack its terminator
LineEnds == {<<"", "\n">>, <<" ", "\n">>, <<"", "">>}

GX == {Coord("X", <<"0", "0", "1", "0", "0", "0">>), Coord("X", <<"-", "5">>)}

GY == Coord("Y", <<"0", "0", "2", "0", "0", "0">>)

GI == Coord("I", <<"0", "0", "0", "1", "0", "0">>)

GJ == Coord("J", <<"0", "0", "0", "2", "0", "0">>)

D01 == Lit("D01")

D02 == Lit("D02")

GerberMotionToks ==
    {<<x, GY, d, Star>> : x \in GX, d \in {D01, D02}}
    \cup {<<x, D01, Star>> : x \in GX}
    \cup { <<GY, D01, Star>>,
           <<Coord("X", <<"0", "0", "1", "0", "0", "0">>), GY, GI, GJ, D01, Star>>,
           <<Coord("X", <<"-", "5">>), GI, GJ, D01, Star>>,
           <<GY, GI, GJ, D01, Star>>,
           <<GI, GJ, D01, Star>>,
           <<D02, Star>>,
           <<Lit("G01"), Coord("X", <<"-", "5">>), GY, D01, Star>>,
           <<Lit("G02"), Coord("X", <<"-", "5">>), GY, GI, GJ, D01, Star>>,
           <<Lit("G03"), Coord("X", <<"-", "5">>), GY, D02, Star>> }

GerberOtherToks ==
    ModeLines
    \cup { <<>>,
           <<Lit("%"), Lit("FSLA"), Coord("X", <<"3", "6">>), Coord("Y", <<"3", "6">>),
             Star, Lit("%")>>,
           <<Lit("G54"), Lit("D11"), Star>>,
           <<Lit("G04"), Star>> }

GerberLines ==
    {Line(e[1], t, e[2]) : e \in LineEnds, t \in GerberMotionToks \cup GerberOtherToks}

\* the files a modifier is constructed on: an empty one, one that begins
\* with %FSLAX24Y24*%, one that begins with %MOIN*%
GerberHeaders ==
    { GerberFile(TRUE, <<>>),
      GerberFile(TRUE, <<FSLine("L", "A", 2, 4), MOLine("MM")>>),
      GerberFile(TRUE, <<MOLine("IN")>>) }

\* the offsets a user passes, in input units: (1.0, -0.5) and (0, 0.005)
GerberOffsets == { << <<1, 1>>, <<-1, 2>> >>, << <<0, 1>>, <<1, 200>> >> }

InputUnits == {"MM", "IN"}

DX == {Coord("X", <<"1", ".", "5">>), Coord("X", <<"-", "0", ".", "5">>), Coord("X", <<"-">>)}

DY == {Coord("Y", <<"2", ".", "2", "5">>), Coord("Y", <<"0", "1", "0">>),
       Coord("Y", <<"1", ".", "2", ".", "3">>)}

DrillToks ==
    {<<x, y>> : x \in DX, y \in DY} \cup {<<x>> : x \in DX} \cup {<<y>> : y \in DY}
    \cup {<<y, x>> : x \in DX, y \in DY}
    \cup {<<Lit("G00"), x, Lit("G85"), y, Lit("M15")>> : x \in DX, y \in DY}
    \cup EndCommands
    \cup { <<>>, <<Lit("T01")>>, <<Lit("T01C0.5")>>, <<Lit("%")>>, <<Lit("M48")>>,
           <<Lit("METRIC")>> }

DrillLines == {Line(e[1], t, e[2]) : e \in LineEnds, t \in DrillToks}

\* the offsets a user passes: (0.5, 0) and (-1.5, 2.25)
DrillOffsets == { << <<1, 2>>, <<0, 1>> >>, << <<-3, 2>>, <<9, 4>> >> }

(***************************************************************************)
(* History kept for the properties.                                        *)
(***************************************************************************)
Handling(line, route) ==
    [line |-> line, route |-> route, mode |-> current_interpolation,
     m0 |-> modified_count, e0 |-> error_count]

\* the mode-setting command a stripped line is, if it is one
ModeClass(line) ==
    IF Len(line.toks) = 2 /\ line.toks[2] = Star
       /\ line.toks[1] \in {Lit("G01"), Lit("G02"), Lit("G03"), Lit("G75")}
    THEN line.toks[1].txt[1]
    ELSE "other"

(***************************************************************************)
(* The state after construction, and the operations.                       *)
(***************************************************************************)
InitGerber ==
    \E h \in GerberHeaders :
        LET g == analyze_format(h)
        IN  /\ tool = "gerber"
            /\ header = h
            /\ zero_omission = g.zero_omission
            /\ coord_format = g.coord_format
            /\ file_unit = g.file_unit
            /\ current_interpolation = g.current_interpolation
            /\ quadrant_mode = g.quadrant_mode

\* a drill file the sniffer recognized, of either unit
InitDrill ==
    /\ tool = "drill"
    /\ zero_omission = "L"
    /\ coord_format = <<3, 6>>
    /\ file_unit \in {"MM", "IN"}
    /\ current_interpolation = "G01"
    /\ quadrant_mode = "single"

InitModify ==
    /\ pc = "ready"
    /\ offset_x = 0
    /\ offset_y = 0
    /\ modified_count = 0
    /\ error_count = 0
    /\ arc_commands_found = 0
    /\ line_num = 0
    /\ last = [line |-> NoLine, route |-> "none", mode |-> "G01", m0 |-> 0, e0 |-> 0]
    /\ written = <<>>
    /\ mode_hist = <<>>
    /\ args = <<>>

NoFormatting == fc_value = 0 /\ fc_text = <<>>

NoCopy ==
    /\ content = [head |-> <<>>, tail |-> <<>>]
    /\ os_linesep = "\n"
    /\ file_encoding = "utf-8"
    /\ is_drill_file = (tool = "drill")
    /\ copy_out = <<>>

NoRun == cli = "-" /\ files = <<>> /\ idx = 0 /\ run = "idle" /\ reported = <<>>

NoHeader == header = GerberFile(TRUE, <<>>)

NoText == text = <<>>

Init ==
    /\ InitGerber \/ (InitDrill /\ NoHeader)
    /\ InitModify /\ NoFormatting /\ NoCopy /\ NoRun /\ NoText

\* GerberCoordinateModifier.modify up to its loop
GerberModifyBegin ==
    /\ tool = "gerber"
    /\ pc = "ready"
    /\ \E o \in GerberOffsets, input_unit \in InputUnits :
          /\ args' = <<o[1], o[2], input_unit>>
          /\ offset_x' = convert_offset_to_file_units(o[1], input_unit)
          /\ offset_y' = convert_offset_to_file_units(o[2], input_unit)
    /\ modified_count' = 0
    /\ error_count' = 0
    /\ arc_commands_found' = 0
    /\ pc' = "loop"
    /\ UNCHANGED <<tool, zero_omission, coord_format, file_unit, current_interpolation,
                   quadrant_mode, line_num, last, written, mode_hist>>
    /\ UNCHANGED <<fmtVars, copyVars, runVars, sniffVars>>

\* DrillCoordinateModifier.modify up to its loop, for a recognized drill file
DrillModifyBegin ==
    /\ tool = "drill"
    /\ pc = "ready"
    /\ \E o \in DrillOffsets, input_unit \in InputUnits :
          /\ args' = <<o[1], o[2], input_unit>>
          /\ offset_x' = drill_convert_offset_to_file_units(o[1], input_unit)
          /\ offset_y' = drill_convert_offset_to_file_units(o[2], input_unit)
    /\ modified_count' = 0
    /\ error_count' = 0
    /\ pc' = "loop"
    /\ UNCHANGED <<tool, zero_omission, coord_format, file_unit, current_interpolation,
                   quadrant_mode, arc_commands_found, line_num, last, written, mode_hist>>
    /\ UNCHANGED <<fmtVars, copyVars, runVars, sniffVars>>

\* a line can be read: the loop runs and the line before ended with a terminator
CanRead == pc = "loop" /\ line_num < MaxLines /\ (line_num > 0 => last.line.term = "\n")

\* one iteration of the loop of GerberCoordinateModifier.modify
GerberLine ==
    /\ tool = "gerber"
    /\ CanRead
    /\ \E line \in GerberLines : \E r \in {GerberStep(line)} :
              /\ current_interpolation' = r.ci
              /\ quadrant_mode' = r.qm
              /\ modified_count' = modified_count + r.dm
              /\ error_count' = error_count + r.de
              /\ arc_commands_found' = arc_commands_found + r.da
              /\ written' = r.out
              /\ last' = Handling(line, r.route)
              /\ mode_hist' = Append(mode_hist, ModeClass(line))
    /\ line_num' = line_num + 1
    /\ UNCHANGED <<tool, pc, zero_omission, coord_format, file_unit, offset_x, offset_y, args>>
    /\ UNCHANGED <<fmtVars, copyVars, runVars, sniffVars>>

\* one iteration of the loop of DrillCoordinateModifier.modify
DrillLine ==
    /\ tool = "drill"
    /\ CanRead
    /\ \E line \in DrillLines : \E r \in {DrillStep(line)} :
              /\ modified_count' = modified_count + r.dm
              /\ error_count' = error_count + r.de
              /\ written' = r.out
              /\ last' = Handling(line, r.route)
    /\ line_num' = line_num + 1
    /\ UNCHANGED <<tool, pc, zero_omission, coord_format, file_unit, offset_x, offset_y,
                   current_interpolation, quadrant_mode, arc_commands_found, mode_hist, args>>
    /\ UNCHANGED <<fmtVars, copyVars, runVars, sniffVars>>

\* end of input: modify returns (modified_count, error_count)
ModifyReturn ==
    /\ tool \in {"gerber", "drill"}
    /\ pc = "loop"
    /\ pc' = "done"
    /\ UNCHANGED <<tool, zero_omission, coord_format, file_unit, current_interpolation,
                   quadrant_mode, offset_x, offset_y, modified_count, error_count,
                   arc_commands_found, line_num, last, written, mode_hist, args>>
    /\ UNCHANGED <<fmtVars, copyVars, runVars, sniffVars>>

Next == GerberModifyBegin \/ DrillModifyBegin \/ GerberLine \/ DrillLine \/ ModifyReturn

Spec == Init /\ [][Next]_vars

(***************************************************************************)
(* Properties of the Gerber transformer.                                   *)
(***************************************************************************)
GerberHandled == tool = "gerber" /\ line_num > 0

\* a line carrying an X and/or a Y field followed by an operation code
IsMotionLine(toks) ==
    \E i \in 1..Len(toks) : \E j \in (i + 1)..Len(toks) :
        toks[i].k \in {"X", "Y"} /\ IsSignedDigits(toks[i].txt) /\ toks[j] \in OpCodes

\* out is the field in with its value moved by off
MovedBy(in, out, off) ==
    out.k = in.k /\ IsSignedDigits(out.txt) /\ PyInt(out.txt) = PyInt(in.txt) + off

\* C1: every motion line (X and/or Y followed by D01/D02/D03) is written with
\* each X equal to the input X plus the X offset and each Y equal to the input
\* Y plus the Y offset, in any interpolation mode and with one or both of X
\* and Y present; every other token of the line is unchanged.
C1_EveryMotionLineOffset ==
    (GerberHandled /\ IsMotionLine(last.line.toks)) =>
        /\ Len(written) = 1
        /\ Len(written[1].toks) = Len(last.line.toks)
        /\ \A i \in 1..Len(last.line.toks) :
              LET in  == last.line.toks[i]
                  out == written[1].toks[i]
              IN  IF in.k = "X" THEN MovedBy(in, out, offset_x)
                  ELSE IF in.k = "Y" THEN MovedBy(in, out, offset_y)
                  ELSE out = in

\* the line read last went to the arc path and one of the three layouts matched
ArcLayoutHandled ==
    GerberHandled /\ last.route = "arc" /\ ArcMatches(last.line.toks)

\* C2 as stated: on a line of the arc path matching X,Y,I,J / X,I,J / Y,I,J +
\* D0n, the I and J tokens of the output are exactly those of the input (same
\* digits), and each X or Y present is the original plus its offset.
C2_ArcIJTokensIdentical ==
    ArcLayoutHandled =>
        /\ Len(written) = 1
        /\ Len(written[1].toks) = Len(last.line.toks)
        /\ \A i \in 1..Len(last.line.toks) :
              LET in  == last.line.toks[i]
                  out == written[1].toks[i]
              IN  IF in.k = "X" THEN MovedBy(in, out, offset_x)
                  ELSE IF in.k = "Y" THEN MovedBy(in, out, offset_y)
                  ELSE out = in

\* C2 as amended: on such a line the I and J tokens of the output encode the
\* integer values of the input's I and J (never offset; re-encoded, so the
\* digits may differ in zero padding), each X or Y present is the original
\* plus its offset, and the tokens around the fields are unchanged.
C2_ArcIJValuesKept ==
    ArcLayoutHandled =>
        /\ Len(written) = 1
        /\ Len(written[1].toks) = Len(last.line.toks)
        /\ \A i \in 1..Len(last.line.toks) :
              LET in  == last.line.toks[i]
                  out == written[1].toks[i]
              IN  IF in.k = "X" THEN MovedBy(in, out, offset_x)
                  ELSE IF in.k = "Y" THEN MovedBy(in, out, offset_y)
                  ELSE IF in.k \in {"I", "J"} THEN MovedBy(in, out, 0)
                  ELSE out = in

\* an arc line was re-encoded with a non-zero X offset and its I token changed text
C2_Witness ==
    /\ ArcLayoutHandled
    /\ offset_x # 0
    /\ \E i \in 1..Len(last.line.toks) :
          /\ last.line.toks[i].k = "I"
          /\ written[1].toks[i] # last.line.toks[i]
    /\ \E i \in 1..Len(last.line.toks) :
          /\ last.line.toks[i].k = "X"
          /\ written[1].toks[i] # last.line.toks[i]

\* the mode set by the most recent G01 / G02 / G03 command of a history,
\* Linear (G01) if there is none
RECURSIVE LastMode(_)
LastMode(h) ==
    IF h = <<>> THEN "G01"
    ELSE IF h[Len(h)] \in {"G01", "G02", "G03"} THEN h[Len(h)]
    ELSE LastMode(SubSeq(h, 1, Len(h) - 1))

\* C3: the mode that routes a line is the one set by the most recent mode
\* command (G01*, G02*, G03*) read before it, Linear if none; after G02/G03
\* every motion line goes to the arc path until a G01 command is read; after
\* G01 an X,Y,D0n line goes to the linear path and receives the offset.
C3_ModeCarriedForward ==
    tool = "gerber" =>
        /\ current_interpolation = LastMode(mode_hist)
        /\ line_num > 0 =>
              /\ last.mode = LastMode(SubSeq(mode_hist, 1, Len(mode_hist) - 1))
              /\ (last.mode \in {"G02", "G03"} /\ IsMotionLine(last.line.toks))
                    => last.route = "arc"
              /\ ( /\ last.mode = "G01"
                   /\ Len(last.line.toks) = 4
                   /\ last.line.toks[1].k = "X"
                   /\ last.line.toks[2].k = "Y"
                   /\ last.line.toks[3] \in OpCodes
                   /\ last.line.toks[4] = Star )
                    => /\ last.route = "linear"
                       /\ MovedBy(last.line.toks[1], written[1].toks[1], offset_x)
                       /\ MovedBy(last.line.toks[2], written[1].toks[2], offset_y)

\* G02* was read, then a line that sets no mode, then an arc line without a
\* mode token of its own, which went to the arc path
C3_Witness ==
    /\ tool = "gerber"
    /\ Len(mode_hist) = 3
    /\ mode_hist[1] = "G02"
    /\ mode_hist[2] = "other"
    /\ last.route = "arc"
    /\ ~is_arc_command(last.line.toks)
    /\ ArcMatches(last.line.toks)

\* the line read last matches none of the coordinate patterns applicable to it
NoPatternApplied ==
    /\ line_num > 0
    /\ \/ tool = "gerber" /\ last.route \in {"mode", "skip", "pass"}
       \/ tool = "gerber" /\ last.route = "arc" /\ ~ArcMatches(last.line.toks)
       \/ tool = "drill" /\ last.route \in {"skip", "tool", "pass"}

\* C4: a line matching none of the coordinate patterns applicable to it is
\* written identical to the input line, terminator and surrounding whitespace
\* included, and is not counted as modified; also on the arc path.
C4_UnmatchedLineVerbatim ==
    NoPatternApplied => (written = <<last.line>> /\ modified_count = last.m0)

X001000 == Coord("X", <<"0", "0", "1", "0", "0", "0">>)

\* the scenario: format (3,6), Leading, Metric file, Metric offset (1.0, -0.5),
\* the line X001000Y002000D02* read in Linear mode
C5_Scenario ==
    /\ GerberHandled
    /\ zero_omission = "L"
    /\ coord_format = <<3, 6>>
    /\ file_unit = "MM"
    /\ args = << <<1, 1>>, <<-1, 2>>, "MM" >>
    /\ last.mode = "G01"
    /\ last.line.toks = <<X001000, GY, D02, Star>>

\* C5 as stated: the integer offset is (1000000, -500000) and the line is
\* emitted as X1001000Y1501000D02*.
C5_EmitsUnpadded ==
    C5_Scenario =>
        /\ <<offset_x, offset_y>> = <<1000000, -500000>>
        /\ written[1].toks = << Coord("X", <<"1", "0", "0", "1", "0", "0", "0">>),
                                Coord("Y", <<"1", "5", "0", "1", "0", "0", "0">>),
                                D02, Star >>

\* C5 as amended: the integer offset is (1000000, -500000) and the line is
\* emitted as X001001000Y-000498000D02* (2000 - 500000 = -498000, both fields
\* zero padded to 9 digits).
C5_EmitsPadded ==
    C5_Scenario =>
        /\ <<offset_x, offset_y>> = <<1000000, -500000>>
        /\ written = << Line("",
                             << Coord("X", <<"0", "0", "1", "0", "0", "1", "0", "0", "0">>),
                                Coord("Y", <<"-", "0", "0", "0", "4", "9", "8", "0", "0", "0">>),
                                D02, Star >>,
                             "\n") >>

C5_Witness == C5_Scenario /\ last.route = "linear"

(***************************************************************************)
(* Properties of the Excellon transformer.                                 *)
(***************************************************************************)
DrillHandled == tool = "drill" /\ line_num > 0

\* not blank, not a program-end command, not a tool selection
IsCoordinateCandidate(toks) ==
    toks # <<>> /\ toks \notin EndCommands /\ ~IsToolSelect(toks)

\* value rounded to six decimal places
Round6(value) ==
    LET m == RoundHalfEven(RatMul(<<Abs(value[1]), value[2]>>, <<1000000, 1>>))
    IN  RatNorm(IF value[1] < 0 THEN -m ELSE m, 1000000)

\* a plain decimal: digits, at most one point, an integer part without zero
\* padding, no trailing zero after the point and no trailing point
IsPlainDecimal(txt) ==
    LET body == IF txt[1] = "-" THEN Tail(txt) ELSE txt
    IN  /\ FloatOK(txt)
        /\ body[1] # "."
        /\ (Len(body) > 1 /\ body[1] = "0") => body[2] = "."
        /\ (\E i \in 1..Len(body) : body[i] = ".") => body[Len(body)] \notin {"0", "."}

\* out is the field in moved by off and rendered as a plain decimal
ShiftedBy(in, out, off) ==
    /\ out.k = in.k
    /\ IsPlainDecimal(out.txt)
    /\ FloatVal(out.txt) = Round6(RatAdd(FloatVal(in.txt), off))

\* the output line is the input line with the fields at positions xs moved by
\* the X offset, those at ys by the Y offset, and every other token unchanged
OnlyMoved(xs, ys) ==
    /\ Len(written) = 1
    /\ Len(written[1].toks) = Len(last.line.toks)
    /\ \A n \in 1..Len(last.line.toks) :
          IF n \in xs THEN ShiftedBy(last.line.toks[n], written[1].toks[n], offset_x)
          ELSE IF n \in ys THEN ShiftedBy(last.line.toks[n], written[1].toks[n], offset_y)
          ELSE written[1].toks[n] = last.line.toks[n]

\* C7: a candidate line with an X decimal field followed by a Y decimal field
\* is written as prefix X render(x+dx) middle Y render(y+dy) suffix, render
\* being the plain decimal without trailing zeros, trailing point or padding
\* (X1.5Y2.25 with offset (0.5, 0) on a metric file gives X2Y2.25); a line
\* with only an X field has only X shifted, one with only a Y field only Y.
C7_DrillLineShifted ==
    (DrillHandled /\ IsCoordinateCandidate(last.line.toks)) =>
        LET toks == last.line.toks
            xs   == FieldsAt(toks, "X")
            ys   == FieldsAt(toks, "Y")
        IN  /\ \A i \in xs : \A j \in ys :
                  ( /\ i < j
                    /\ \A m \in xs : i <= m
                    /\ \A m \in ys : j <= m
                    /\ FloatOK(toks[i].txt)
                    /\ FloatOK(toks[j].txt) ) => OnlyMoved({i}, {j})
            /\ \A i \in xs :
                  (ys = {} /\ xs = {i} /\ FloatOK(toks[i].txt)) => OnlyMoved({i}, {})
            /\ \A j \in ys :
                  (xs = {} /\ ys = {j} /\ FloatOK(toks[j].txt)) => OnlyMoved({}, {j})
            /\ ( /\ toks = <<Coord("X", <<"1", ".", "5">>), Coord("Y", <<"2", ".", "2", "5">>)>>
                 /\ <<offset_x, offset_y>> = << <<1, 2>>, <<0, 1>> >> )
                  => written[1].toks = <<Coord("X", <<"2">>), Coord("Y", <<"2", ".", "2", "5">>)>>

\* X1.5Y2.25 was read with the offset (0.5, 0) and X2Y2.25 was written
C7_Witness ==
    /\ DrillHandled
    /\ <<offset_x, offset_y>> = << <<1, 2>>, <<0, 1>> >>
    /\ last.line.toks = <<Coord("X", <<"1", ".", "5">>), Coord("Y", <<"2", ".", "2", "5">>)>>
    /\ last.route = "xy"
    /\ written[1].toks = <<Coord("X", <<"2">>), Coord("Y", <<"2", ".", "2", "5">>)>>

(***************************************************************************)
(* Properties of both transformers.                                        *)
(***************************************************************************)
\* every X and Y field of a drill candidate line is text float() rejects, so
\* that whichever field the code parses raises
DrillLineRaises(toks) ==
    /\ IsCoordinateCandidate(toks)
    /\ FieldsAt(toks, "X") \cup FieldsAt(toks, "Y") # {}
    /\ \A i \in FieldsAt(toks, "X") \cup FieldsAt(toks, "Y") : ~FloatOK(toks[i].txt)

\* every X and Y field of a drill candidate line is a number, X before Y
DrillLineValid(toks) ==
    /\ IsCoordinateCandidate(toks)
    /\ \E i \in FieldsAt(toks, "X") : \E j \in FieldsAt(toks, "Y") : i < j
    /\ \A i \in FieldsAt(toks, "X") \cup FieldsAt(toks, "Y") : FloatOK(toks[i].txt)

\* C9: when handling a line raises (a matched X or Y field that is no
\* number), the original line is written unmodified exactly once and nothing
\* else, the error count grows by exactly one, the modified count does not
\* change, and the loop goes on: a later line is handled as usual.
C9_LineErrorRecovered ==
    (tool \in {"gerber", "drill"} /\ line_num > 0) =>
        /\ (tool = "drill" /\ DrillLineRaises(last.line.toks)) => last.route = "error"
        /\ last.route = "error" =>
              /\ written = <<last.line>>
              /\ error_count = last.e0 + 1
              /\ modified_count = last.m0
        /\ last.route # "error" => error_count = last.e0
        /\ (tool = "drill" /\ DrillLineValid(last.line.toks)) =>
              /\ last.route = "xy"
              /\ modified_count = last.m0 + 1
        /\ (tool = "gerber" /\ last.mode = "G01" /\ ~is_arc_command(last.line.toks)
            /\ ~StartsWithPercent(last.line) /\ Matches(last.line.toks, LinearPattern)) =>
              /\ last.route = "linear"
              /\ modified_count = last.m0 + 1

\* a line raised, and the line after it was shifted as usual
C9_Witness ==
    /\ DrillHandled
    /\ error_count = 1
    /\ last.e0 = 1
    /\ last.route = "xy"
    /\ modified_count = 1

(***************************************************************************)
(* format_coordinate on its own: every format descriptor of up to          *)
(* MaxFmtDigits digits, every value representable in that many digits.     *)
(***************************************************************************)
FmtFormats ==
    {f \in (0..MaxFmtDigits) \X (0..MaxFmtDigits) : f[1] + f[2] >= 1 /\ f[1] + f[2] <= MaxFmtDigits}

Representable(f) == (1 - Pow10(f[1] + f[2]))..(Pow10(f[1] + f[2]) - 1)

InitFmt ==
    /\ tool = "fmt"
    /\ zero_omission \in {"L", "A", "T"}
    /\ coord_format \in FmtFormats
    /\ file_unit = "MM"
    /\ current_interpolation = "G01"
    /\ quadrant_mode = "single"
    /\ InitModify
    /\ NoFormatting /\ NoCopy /\ NoRun /\ NoHeader /\ NoText

\* one call of format_coordinate
FormatCoordinate ==
    /\ tool = "fmt"
    /\ pc = "ready"
    /\ \E n \in Representable(coord_format) :
          /\ fc_value' = n
          /\ fc_text' = format_coordinate(n)
    /\ pc' = "done"
    /\ UNCHANGED <<tool, lineVars, copyVars, runVars, sniffVars>>

SpecFmt == InitFmt /\ [][FormatCoordinate]_vars

\* C6: for every integer n representable in integer_digits + decimal_digits
\* digits and both zero-omission branches, the text format_coordinate(n)
\* returns is a signed digit string ([-]?\d+) whose integer value is n.
C6_FormatRoundTrip ==
    (tool = "fmt" /\ pc = "done") =>
        (IsSignedDigits(fc_text) /\ PyInt(fc_text) = fc_value)

\* a negative value formatted with leading zeros after the sign
C6_Witness ==
    /\ tool = "fmt"
    /\ pc = "done"
    /\ zero_omission = "L"
    /\ fc_value < 0
    /\ Len(fc_text) = coord_format[1] + coord_format[2] + 1
    /\ fc_text[1] = "-"
    /\ fc_text[2] = "0"

(***************************************************************************)
(* DrillCoordinateModifier on a file the sniffer rejects: the encoding     *)
(* probe and the copy.  A file is its bytes, head being what the probe's   *)
(* read(1024) decodes (the first buffer of the file, MaxHead bytes here)   *)
(* and tail the rest; the bytes are 'a', LF, CR and 0xE9.                  *)
(***************************************************************************)
Bytes == {"a", "\n", "\r", "E9"}

RECURSIVE SeqsUpTo(_, _)
SeqsUpTo(S, n) ==
    IF n = 0 THEN {<<>>}
    ELSE LET shorter == SeqsUpTo(S, n - 1)
         IN  shorter \cup {Append(q, x) : q \in {r \in shorter : Len(r) = n - 1}, x \in S}

\* the trail bytes that make a GBK character with the lead byte 0xE9
GbkTrail == {"a", "E9"}

\* whether a strict decode of bytes raises UnicodeDecodeError; final: no more
\* bytes follow, so a sequence cut short at the end is an error too
DecodeRaises(encoding, bytes, final) ==
    LET n == Len(bytes)
    IN  IF encoding = "utf-8" \/ encoding = "ascii"
        THEN \E i \in 1..n : bytes[i] = "E9" /\ (i < n \/ final \/ encoding = "ascii")
        ELSE IF encoding = "gbk"
        THEN LET RECURSIVE Bad(_)
                 Bad(i) == IF i > n THEN FALSE
                           ELSE IF bytes[i] # "E9" THEN Bad(i + 1)
                           ELSE IF i = n THEN final
                           ELSE IF bytes[i + 1] \in GbkTrail THEN Bad(i + 2)
                           ELSE TRUE
             IN  Bad(1)
        ELSE FALSE

\* bytes.decode(encoding, errors='ignore'): characters, undecodable bytes dropped
DecodeIgnore(encoding, bytes) ==
    LET n == Len(bytes)
        RECURSIVE Dec(_)
        Dec(i) ==
            IF i > n THEN <<>>
            ELSE IF bytes[i] # "E9" THEN <<bytes[i]>> \o Dec(i + 1)
            ELSE IF encoding = "latin-1" THEN <<"U+00E9">> \o Dec(i + 1)
            ELSE IF encoding = "gbk" /\ i < n /\ bytes[i + 1] \in GbkTrail
            THEN <<IF bytes[i + 1] = "a" THEN "U+958D" ELSE "U+6B9A">> \o Dec(i + 2)
            ELSE Dec(i + 1)
    IN  Dec(1)

\* reading in text mode: "\r\n" and "\r" become "\n"
RECURSIVE UniversalNewlines(_)
UniversalNewlines(chars) ==
    IF chars = <<>> THEN <<>>
    ELSE IF chars[1] = "\r"
    THEN <<"\n">> \o UniversalNewlines(IF Len(chars) >= 2 /\ chars[2] = "\n"
                                        THEN SubSeq(chars, 3, Len(chars)) ELSE Tail(chars))
    ELSE <<chars[1]>> \o UniversalNewlines(Tail(chars))

\* writing in text mode with encoding='utf-8': "\n" becomes os.linesep
RECURSIVE EncodeUtf8(_)
EncodeUtf8(chars) ==
    IF chars = <<>> THEN <<>>
    ELSE (IF chars[1] = "\n" THEN (IF os_linesep = "\n" THEN <<"\n">> ELSE <<"\r", "\n">>)
          ELSE IF chars[1] = "U+00E9" THEN <<"C3", "A9">>
          ELSE IF chars[1] = "U+958D" THEN <<"E9", "96", "8D">>
          ELSE IF chars[1] = "U+6B9A" THEN <<"E6", "AE", "9A">>
          ELSE <<chars[1]>>)
         \o EncodeUtf8(Tail(chars))

Encodings == <<"utf-8", "gbk", "latin-1", "ascii">>

\* detect_encoding: the first encoding whose strict decode of the sample
\* does not raise, utf-8 if all do
detect_encoding(file) ==
    LET ok == {e \in 1..Len(Encodings) : ~DecodeRaises(Encodings[e], file.head, file.tail = <<>>)}
    IN  IF ok = {} THEN "utf-8" ELSE Encodings[Least(ok)]

\* f_out.write(f_in.read()) of modify() for a file that is no drill file
CopiedBytes(file) ==
    EncodeUtf8(UniversalNewlines(DecodeIgnore(file_encoding, file.head \o file.tail)))

\* the state after construction on such a file: none of the bytes makes an
\* indicator token, so analyze_format leaves is_drill_file False
InitCopy ==
    /\ tool = "copy"
    /\ zero_omission = "L"
    /\ coord_format = <<3, 6>>
    /\ file_unit = "MM"
    /\ current_interpolation = "G01"
    /\ quadrant_mode = "single"
    /\ InitModify
    /\ NoFormatting
    /\ content \in {c \in [head : SeqsUpTo(Bytes, MaxHead), tail : SeqsUpTo(Bytes, MaxTail)] :
                        c.tail # <<>> => Len(c.head) = MaxHead}
    /\ os_linesep \in {"\n", "\r\n"}
    /\ file_encoding = detect_encoding(content)
    /\ is_drill_file = FALSE
    /\ copy_out = <<>>
    /\ NoRun /\ NoHeader /\ NoText

\* DrillCoordinateModifier.modify when is_drill_file is False
DrillModifyCopy ==
    /\ tool = "copy"
    /\ pc = "ready"
    /\ ~is_drill_file
    /\ copy_out' = CopiedBytes(content)
    /\ modified_count' = 0
    /\ error_count' = 0
    /\ pc' = "done"
    /\ UNCHANGED <<tool, zero_omission, coord_format, file_unit, current_interpolation,
                   quadrant_mode, offset_x, offset_y, arc_commands_found, line_num, last,
                   written, mode_hist, args>>
    /\ UNCHANGED <<fmtVars, content, os_linesep, file_encoding, is_drill_file, runVars, sniffVars>>

SpecCopy == InitCopy /\ [][DrillModifyCopy]_vars

\* C8: when the sniffer rejects the file, modify edits nothing, the output is
\* the input byte for byte, whatever the content, and the counts are (0, 0).
C8_CopyIsByteIdentical ==
    (tool = "copy" /\ pc = "done") =>
        /\ copy_out = content.head \o content.tail
        /\ <<modified_count, error_count>> = <<0, 0>>

(***************************************************************************)
(* main(): one run over a list of files.  A file is what the system lets   *)
(* happen to it: whether it can be opened for reading, whether its output  *)
(* can be opened for writing, whether the sniffer takes it for a drill     *)
(* file, and how many coordinate lines it holds.                           *)
(***************************************************************************)
FileKinds == [readable : BOOLEAN, writable : BOOLEAN, drill : BOOLEAN, coords : 0..1]

InitRun ==
    /\ tool = "run"
    /\ zero_omission = "L"
    /\ coord_format = <<3, 6>>
    /\ file_unit = "MM"
    /\ current_interpolation = "G01"
    /\ quadrant_mode = "single"
    /\ InitModify
    /\ NoFormatting /\ NoCopy /\ NoHeader /\ NoText
    /\ cli \in {"gerber", "drill"}
    /\ files \in SeqsUpTo(FileKinds, MaxFiles) \ {<<>>}
    /\ idx = 1
    /\ run = "construct"
    /\ reported = <<>>

\* GerberCoordinateModifier(input_file): analyze_format catches every exception
GerberConstructRaises(f) == FALSE

\* DrillCoordinateModifier(input_file): detect_encoding opens the file and
\* catches UnicodeDecodeError only; analyze_format catches every exception
DrillConstructRaises(f) == ~f.readable

\* what GerberCoordinateModifier.modify returns
GerberModifyReturns(f) ==
    IF f.readable /\ f.writable THEN <<f.coords, 0>> ELSE <<0, 1>>

\* what DrillCoordinateModifier.modify returns
DrillModifyReturns(f) ==
    IF ~(f.readable /\ f.drill) THEN <<0, 0>>
    ELSE IF f.writable THEN <<f.coords, 0>>
    ELSE <<0, 1>>

\* modifier = ...CoordinateModifier(input_file) in the loop of main()
RunConstruct ==
    /\ tool = "run"
    /\ run = "construct"
    /\ run' = IF (cli = "drill" /\ DrillConstructRaises(files[idx]))
                 \/ (cli = "gerber" /\ GerberConstructRaises(files[idx]))
              THEN "aborted" ELSE "modify"
    /\ UNCHANGED <<tool, pc, lineVars, fmtVars, copyVars, sniffVars, cli, files, idx, reported>>

\* modified_count, error_count = modifier.modify(...) and the rest of the loop body
RunModify ==
    /\ tool = "run"
    /\ run = "modify"
    /\ reported' = Append(reported, IF cli = "gerber" THEN GerberModifyReturns(files[idx])
                                    ELSE DrillModifyReturns(files[idx]))
    /\ idx' = idx + 1
    /\ run' = IF idx = Len(files) THEN "finished" ELSE "construct"
    /\ UNCHANGED <<tool, pc, lineVars, fmtVars, copyVars, sniffVars, cli, files>>

SpecRun == InitRun /\ [][RunConstruct \/ RunModify]_vars

\* C10: no error raised while sniffing or transforming a file ends the run:
\* the run never aborts, and every file up to the one main() is at has been
\* reported through its counts, for both tools.
C10_RunNeverAborts ==
    tool = "run" =>
        /\ run # "aborted"
        /\ Len(reported) = (IF run = "finished" THEN Len(files) ELSE idx - 1)

(***************************************************************************)
(* GerberCoordinateModifier(input_file): __init__ and analyze_format on    *)
(* files of up to MaxHeaderLines lines, all of them far shorter than the   *)
(* 2000 bytes the scan is bounded by.                                      *)
(***************************************************************************)
GerberHeaderLines ==
    { FSLine("L", "A", 2, 4), FSLine("L", "A", 3, 5), FSLine("T", "A", 2, 4),
      FSLine("L", "I", 2, 4), MOLine("MM"), MOLine("IN"), OtherLine }

\* __init__ up to the call of analyze_format
InitSniff ==
    /\ tool = "sniff"
    /\ header \in [readable : BOOLEAN, lines : SeqsUpTo(GerberHeaderLines, MaxHeaderLines)]
    /\ zero_omission = GerberDefaults.zero_omission
    /\ coord_format = GerberDefaults.coord_format
    /\ file_unit = GerberDefaults.file_unit
    /\ current_interpolation = GerberDefaults.current_interpolation
    /\ quadrant_mode = GerberDefaults.quadrant_mode
    /\ pc = "new"
    /\ offset_x = 0
    /\ offset_y = 0
    /\ modified_count = 0
    /\ error_count = 0
    /\ arc_commands_found = 0
    /\ line_num = 0
    /\ last = [line |-> NoLine, route |-> "none", mode |-> "G01", m0 |-> 0, e0 |-> 0]
    /\ written = <<>>
    /\ mode_hist = <<>>
    /\ args = <<>>
    /\ NoFormatting /\ NoCopy /\ NoRun /\ NoText

\* self.analyze_format(), the last statement of __init__
GerberAnalyzeFormat ==
    /\ tool = "sniff"
    /\ pc = "new"
    /\ LET g == analyze_format(header)
       IN  /\ zero_omission' = g.zero_omission
           /\ coord_format' = g.coord_format
           /\ file_unit' = g.file_unit
    /\ pc' = "ready"
    /\ UNCHANGED <<tool, current_interpolation, quadrant_mode, offset_x, offset_y,
                   modified_count, error_count, arc_commands_found, line_num, last,
                   written, mode_hist, args>>
    /\ UNCHANGED <<fmtVars, copyVars, runVars, sniffVars>>

SpecSniff == InitSniff /\ [][GerberAnalyzeFormat]_vars

\* the lines of the file that are format-spec parameters, unit parameters
FSLinesOf(file) == {i \in 1..Len(file.lines) : file.lines[i].p = "FS"}

MOLinesOf(file) == {i \in 1..Len(file.lines) : file.lines[i].p = "MO"}

\* C13: after sniffing a file (every line of it within the 2000-byte prefix),
\* the descriptor holds the digit counts of the file's format-spec parameter
\* and the unit of its unit parameter, on whatever line they appear; without
\* a format-spec parameter it holds the defaults (Leading, 3, 6), without a
\* unit parameter Metric; and sniffing returns to its caller.
C13_SniffFindsParameters ==
    (tool = "sniff" /\ pc = "ready" /\ header.readable) =>
        /\ \A i \in FSLinesOf(header) :
              FSLinesOf(header) = {i} =>
                  coord_format = <<header.lines[i].xi, header.lines[i].xd>>
        /\ \A i \in MOLinesOf(header) :
              MOLinesOf(header) = {i} => file_unit = header.lines[i].unit
        /\ FSLinesOf(header) = {} => (zero_omission = "L" /\ coord_format = <<3, 6>>)
        /\ MOLinesOf(header) = {} => file_unit = "MM"

(***************************************************************************)
(* DrillCoordinateModifier.analyze_format: the content of the file is a    *)
(* sequence of words on lines of their own, each a sequence of characters. *)
(***************************************************************************)
\* str.upper() on the letters the words are written in
UpperChar(c) ==
    CASE c = "p" -> "P" [] c = "i" -> "I" [] c = "n" -> "N" [] c = "c" -> "C"
      [] c = "h" -> "H" [] OTHER -> c

Upper(w) == [k \in 1..Len(w) |-> UpperChar(w[k])]

\* indicator in w
Contains(w, indicator) ==
    \E k \in 0..(Len(w) - Len(indicator)) : SubSeq(w, k + 1, k + Len(indicator)) = indicator

M48 == <<"M", "4", "8">>
M72 == <<"M", "7", "2">>
M71 == <<"M", "7", "1">>
INCH == <<"I", "N", "C", "H">>
METRIC == <<"M", "E", "T", "R", "I", "C">>
FMAT == <<"F", "M", "A", "T">>
T01C == <<"T", "0", "1", "C">>
T02C == <<"T", "0", "2", "C">>
T1C == <<"T", "1", "C">>
T2C == <<"T", "2", "C">>

drill_indicators == <<M48, M72, M71, INCH, METRIC, FMAT, T01C, T02C, T1C, T2C>>

\* indicator in content_upper: no indicator holds a line end, so it is in the
\* content when it is in one of its lines
InContent(indicator, words) ==
    \E n \in 1..Len(words) : Contains(Upper(words[n]), indicator)

\* sum(1 for indicator in drill_indicators if indicator in content_upper)
indicator_count(words) ==
    Cardinality({n \in 1..Len(drill_indicators) : InContent(drill_indicators[n], words)})

\* what analyze_format leaves in is_drill_file and file_unit (MM before it)
drill_analyze_format(words) ==
    LET accepted == indicator_count(words) >= 2
    IN  [is_drill_file |-> accepted,
         file_unit     |-> IF ~accepted THEN "MM"
                           ELSE IF InContent(METRIC, words) THEN "MM"
                           ELSE IF InContent(INCH, words) THEN "IN"
                           ELSE "MM"]

\* the words of the files: headers, tool definitions T01C0.5 / T02C0.6, a
\* coordinate line, and a lower-case word that holds "inch"
DrillWords ==
    { M48, METRIC, INCH, FMAT,
      <<"T", "0", "1", "C", "0", ".", "5">>, <<"T", "0", "2", "C", "0", ".", "6">>,
      <<"X", "1", "Y", "1">>, <<"p", "i", "n", "c", "h">> }

\* __init__ up to the call of analyze_format, on a file that can be read
InitDrillSniff ==
    /\ tool = "dsniff"
    /\ text \in SeqsUpTo(DrillWords, MaxWords)
    /\ zero_omission = "L"
    /\ coord_format = <<3, 6>>
    /\ file_unit = "MM"
    /\ current_interpolation = "G01"
    /\ quadrant_mode = "single"
    /\ pc = "new"
    /\ offset_x = 0
    /\ offset_y = 0
    /\ modified_count = 0
    /\ error_count = 0
    /\ arc_commands_found = 0
    /\ line_num = 0
    /\ last = [line |-> NoLine, route |-> "none", mode |-> "G01", m0 |-> 0, e0 |-> 0]
    /\ written = <<>>
    /\ mode_hist = <<>>
    /\ args = <<>>
    /\ NoFormatting /\ NoCopy /\ NoRun /\ NoHeader

\* self.analyze_format(), the last statement of __init__
DrillAnalyzeFormat ==
    /\ tool = "dsniff"
    /\ pc = "new"
    /\ LET r == drill_analyze_format(text)
       IN  /\ is_drill_file' = r.is_drill_file
           /\ file_unit' = r.file_unit
    /\ pc' = "ready"
    /\ UNCHANGED <<tool, zero_omission, coord_format, current_interpolation, quadrant_mode,
                   offset_x, offset_y, modified_count, error_count, arc_commands_found,
                   line_num, last, written, mode_hist, args>>
    /\ UNCHANGED <<fmtVars, content, os_linesep, file_encoding, copy_out, runVars, sniffVars>>

SpecDrillSniff == InitDrillSniff /\ [][DrillAnalyzeFormat]_vars

\* C11: for every recognized drill file the sniffed unit is Imperial if an
\* inch indicator is present anywhere in the content and Metric otherwise,
\* also when a metric indicator is present as well.
C11_InchIndicatorWins ==
    (tool = "dsniff" /\ pc = "ready" /\ is_drill_file) =>
        file_unit = (IF InContent(INCH, text) THEN "IN" ELSE "MM")

\* the kinds of indicator: mode header, unit header, format header, tool
\* definition
IndicatorKinds == << {M48}, {M71, M72, INCH, METRIC}, {FMAT}, {T01C, T02C, T1C, T2C} >>

KindsPresent(words) ==
    {n \in 1..Len(IndicatorKinds) : \E indicator \in IndicatorKinds[n] : InContent(indicator, words)}

\* C12: the sniffer accepts a file only if indicators of at least two distinct
\* kinds are present in its content; content with indicators of one kind only
\* (only tool definitions, say) is rejected.
C12_TwoKindsNeeded ==
    (tool = "dsniff" /\ pc = "ready" /\ is_drill_file) => Cardinality(KindsPresent(text)) >= 2

(***************************************************************************)
(* The field width of a file whose zero-omission convention is Leading.    *)
(***************************************************************************)
\* the convention of the file is Leading: its format-spec parameter says L,
\* or it has none and the defaults apply
DeclaresLeading(file) ==
    \A i \in FSLinesOf(file) : file.lines[i].zo = "L"

\* txt is a value written with its absolute value zero padded on the left to
\* width digits, "-" before it when the value is negative
IsPaddedTo(txt, width) ==
    /\ IsSignedDigits(txt)
    /\ LET body == IF txt[1] = "-" THEN Tail(txt) ELSE txt
       IN  /\ Len(body) >= width
           /\ Len(body) > width => body[1] # "0"
           /\ txt[1] = "-" => DigitsVal(body) > 0

\* the line read last was modified: a layout matched and it was re-encoded
GerberLineModified ==
    /\ GerberHandled
    /\ \/ last.route = "linear"
       \/ last.route = "arc" /\ ArcMatches(last.line.toks)

\* C14: in a file whose zero-omission convention is Leading (declared by its
\* format-spec header or taken from the defaults), every X, Y, I and J the
\* transformer writes on a modified line is the absolute value zero padded on
\* the left to integer_digits + decimal_digits digits, with "-" before it
\* when the value is negative.
C14_LeadingFieldWidth ==
    (GerberLineModified /\ DeclaresLeading(header)) =>
        \A i \in 1..Len(written[1].toks) :
            written[1].toks[i].k \in {"X", "Y", "I", "J"} =>
                IsPaddedTo(written[1].toks[i].txt, coord_format[1] + coord_format[2])

=============================================================================
